---------------------------- MODULE Spec2Model ----------------------------
(***************************************************************************)
(* SVGNotesLib: the colour codec, the shape decoders and encoders, the     *)
(* element dispatch and the document assembly, as state machines.          *)
(*                                                                         *)
(* A text (a Rust &str or String) is a sequence of one-character strings.  *)
(* A Result is a record with a field ok; Ok carries val, Err carries err.  *)
(***************************************************************************)
EXTENDS Integers, Sequences, FiniteSets, TLC

VARIABLES
    pc,        \* where the run stands
    color,     \* colour codec: the Color being encoded, or None
    text,      \* colour codec: the text being parsed (given, or the encoding of color)
    na,        \* colour codec: the text to_string_na returned, or None
    cresult,   \* colour codec: what Color::from_str or with_opacity returned, or None
    fraction,  \* colour codec: the opacity handed to with_opacity or returned by opacity
    shape,     \* shapes: the shape being encoded, or None
    event,     \* shapes: the reader event being decoded (given, or the encoding of shape)
    eid,       \* shapes: the id handed to Element::from_event
    sresult,   \* shapes: what from_attributes or from_event returned, or None
    doc,       \* documents: the elements of the Document being rendered, or None
    events,    \* documents: the events the reader still holds, or None
    id,        \* documents: from_str's counter
    pos,       \* documents: how many events from_str has taken from the reader
    elements,  \* documents: the elements from_str has collected
    dresult    \* documents: what Document::from_str returned, or None

colorVars == <<color, text, na, cresult, fraction>>

shapeVars == <<shape, event, eid, sresult>>

docVars == <<doc, events, id, pos, elements, dresult>>

vars == <<pc, colorVars, shapeVars, docVars>>

\* an optional value: None, or Some(x) holding x as its first element
None == <<>>

Some(x) == <<x>>

Ok(v) == [ok |-> TRUE, val |-> v]

\* Color::from_str has Err = ()
ErrUnit == [ok |-> FALSE]

(***************************************************************************)
(* Characters and integers                                                 *)
(***************************************************************************)

U8Max == 255

U8 == 0 .. U8Max

DecChars == <<"0", "1", "2", "3", "4", "5", "6", "7", "8", "9">>

UpperHexChars == DecChars \o <<"A", "B", "C", "D", "E", "F">>

LowerHexChars == DecChars \o <<"a", "b", "c", "d", "e", "f">>

\* a faulty to_digit: upper-case digits only
ToDigitUpper(c, radix) ==
    IF \E i \in 1 .. radix : UpperHexChars[i] = c
    THEN (CHOOSE i \in 1 .. radix : UpperHexChars[i] = c) - 1
    ELSE -1

\* char::to_digit(radix), radix <= 16: the digit's value, or -1 for None
ToDigit(c, radix) ==
    LET up == {i \in 1 .. 16 : UpperHexChars[i] = c}
        lo == {i \in 1 .. 16 : LowerHexChars[i] = c}
        v  == IF up # {} THEN (CHOOSE i \in up : TRUE) - 1
              ELSE IF lo # {} THEN (CHOOSE i \in lo : TRUE) - 1
              ELSE -1
    IN  IF v >= 0 /\ v < radix THEN v ELSE -1

SubSeqFrom(s, i) == SubSeq(s, i, Len(s))

\* the digit loop of u8::from_str_radix: -1 on an invalid digit or overflow
RECURSIVE U8Digits(_, _, _)
U8Digits(digits, radix, acc) ==
    IF digits = <<>> THEN acc
    ELSE LET d == ToDigit(Head(digits), radix)
         IN  IF d < 0 \/ acc * radix + d > U8Max THEN -1
             ELSE U8Digits(Tail(digits), radix, acc * radix + d)

\* u8::from_str_radix(s, radix); u8::from_str is radix 10.
\* An optional '+' is accepted, a '-' is an invalid digit for an unsigned type.
U8FromStrRadix(s, radix) ==
    IF s = <<>> THEN ErrUnit
    ELSE IF Len(s) = 1 /\ Head(s) \in {"+", "-"} THEN ErrUnit
    ELSE IF U8Digits(IF Head(s) = "+" THEN Tail(s) ELSE s, radix, 0) < 0 THEN ErrUnit
    ELSE Ok(U8Digits(IF Head(s) = "+" THEN Tail(s) ELSE s, radix, 0))

\* a faulty {:02X}: {:X}, without the zero padding
HexX(n) ==
    IF n < 16 THEN <<UpperHexChars[n + 1]>>
    ELSE <<UpperHexChars[(n \div 16) + 1], UpperHexChars[(n % 16) + 1]>>

\* {:02X} of a u8
Hex02X(n) == <<UpperHexChars[(n \div 16) + 1], UpperHexChars[(n % 16) + 1]>>

(***************************************************************************)
(* f32                                                                     *)
(*                                                                         *)
(* A finite f32 is [neg, m, e]: the value (-1)^neg * m / 2^e, with m = 0   *)
(* (zero, e = 0) or 2^23 <= m < 2^24, the 24 significant bits. The model   *)
(* draws magnitudes of 2^-8 up to 2^24 and zero, so 0 <= e <= 31; NaN and  *)
(* the infinities are not drawn. All arithmetic stays below 2^31.          *)
(***************************************************************************)

\* f32's significand: 24 bits
MantBits == 24

MantMin == 2 ^ (MantBits - 1)

MantMax == 2 ^ MantBits

F32(neg, m, e) == [neg |-> neg, m |-> m, e |-> e]

F32Zero == F32(FALSE, 0, 0)

F32Neg(f) == F32(~f.neg, f.m, f.e)

\* the f32 with this sign and the significand and exponent in r, k places lower
F32Scaled(neg, r, k) == F32(neg, r.m, r.e + k)

\* f32's ==: the two zeros are equal
F32Eq(f, g) == (f.m = 0 /\ g.m = 0) \/ f = g

\* round to nearest, ties to even: m with the next bit b and whether any lower bit is set
RoundNearestEven(m, e, b, sticky) ==
    IF b = 1 /\ (sticky \/ m % 2 = 1)
    THEN IF m + 1 = MantMax THEN [m |-> MantMin, e |-> e - 1] ELSE [m |-> m + 1, e |-> e]
    ELSE [m |-> m, e |-> e]

\* the quotient's bits, one a step, until 24 are significant; then rounded
RECURSIVE DivBits(_, _, _, _)
DivBits(m, r, d, e) ==
    LET b == IF 2 * r >= d THEN 1 ELSE 0
    IN  IF m >= MantMin
        THEN RoundNearestEven(m, e, b, 2 * r - b * d # 0)
        ELSE DivBits(2 * m + b, 2 * r - b * d, d, e + 1)

\* the decimal digits of n >= 0, most significant first
RECURSIVE IntDigits(_)
IntDigits(n) == IF n < 10 THEN <<n>> ELSE Append(IntDigits(n \div 10), n % 10)

\* the quotient and remainder of the number with decimal digits ds by d: long
\* division, a digit a step, so that nothing exceeds 10 * d
RECURSIVE DecDivMod(_, _, _, _)
DecDivMod(ds, d, q, r) ==
    IF ds = <<>> THEN [q |-> q, r |-> r]
    ELSE LET x == 10 * r + Head(ds)
         IN  DecDivMod(Tail(ds), d, 10 * q + x \div d, x % d)

\* n / d correctly rounded to f32, n given by its decimal digits, 0 < n and
\* n \div d < 2^24: IEEE division, and the decimal-to-binary step of f32::from_str
DivRound(ds, d) ==
    LET qr == DecDivMod(ds, d, 0, 0) IN DivBits(qr.q, qr.r, d, 0)

\* the f32 nearest to the decimal with digits ds, the last k after the point
\* (a literal of the source, or a parsed text): the digits over 5^k, then k binary places
F32OfDigits(neg, ds, k) ==
    IF \A i \in 1 .. Len(ds) : ds[i] = 0 THEN F32(neg, 0, 0)
    ELSE F32Scaled(neg, DivRound(ds, 5 ^ k), k)

IsDecChar(c) == \E i \in 1 .. 10 : DecChars[i] = c

\* the length of the longest prefix of s made of decimal digits
RECURSIVE DigitRun(_)
DigitRun(s) ==
    IF s # <<>> /\ IsDecChar(Head(s)) THEN 1 + DigitRun(Tail(s)) ELSE 0

\* the last step of f32::from_str: the digits before and after the point
F32OfParts(neg, int, frac) ==
    IF DigitRun(frac) # Len(frac) \/ Len(int) + Len(frac) = 0 THEN ErrUnit
    ELSE Ok(F32OfDigits(neg,
                        [i \in 1 .. Len(int) + Len(frac) |-> ToDigit((int \o frac)[i], 10)],
                        Len(frac)))

\* f32::from_str after the sign: ni leading digits, then optionally a point and the rest
F32Unsigned(neg, body, ni) ==
    F32OfParts(neg, SubSeq(body, 1, ni),
               IF ni < Len(body) /\ body[ni + 1] = "."
               THEN SubSeqFrom(body, ni + 2)
               ELSE SubSeqFrom(body, ni + 1))

\* f32::from_str after the sign
F32Signed(neg, body) == F32Unsigned(neg, body, DigitRun(body))

\* f32::from_str on texts without exponent, "inf" or "nan": an optional sign,
\* digits, optionally a point and digits, at least one digit in all
F32FromStr(s) ==
    F32Signed(s # <<>> /\ Head(s) = "-",
              IF s # <<>> /\ Head(s) \in {"+", "-"} THEN Tail(s) ELSE s)

\* digits + 1 in the last place, the carry running left
RECURSIVE IncDigits(_)
IncDigits(ds) ==
    IF ds = <<>> THEN <<1>>
    ELSE IF ds[Len(ds)] < 9 THEN [ds EXCEPT ![Len(ds)] = @ + 1]
    ELSE Append(IncDigits(SubSeq(ds, 1, Len(ds) - 1)), 0)

\* The fraction digits of the shortest decimal that reads back as this f32.
\* After i digits the rest of the value is s / 2^p / 10^i. The digits so far (low)
\* or the digits so far plus one in the last place (high) read back as the value
\* when they lie within half the gap to its neighbour, 2^-(e+1), a quarter below a
\* power of two: 2*s <= 5^i, or 2*(2^p - s) <= 5^i. The nearer of the two is taken.
RECURSIVE ShortestFrac(_, _, _, _, _)
ShortestFrac(s, p, i, acc, pow2) ==
    LET five == 5 ^ i
        okL  == IF pow2 THEN s <= five \div 4 ELSE 2 * s <= five
        okU  == 2 * (2 ^ p - s) <= five
        x    == 5 * s
    IN  IF s = 0 THEN [digits |-> acc, up |-> FALSE]
        ELSE IF i >= 1 /\ (okL \/ okU)
        THEN [digits |-> acc, up |-> IF okL /\ okU THEN 2 * s >= 2 ^ p ELSE okU]
        ELSE ShortestFrac(x % (2 ^ (p - 1)), p - 1, i + 1,
                          Append(acc, x \div (2 ^ (p - 1))), pow2)

DigitText(ds) == [i \in 1 .. Len(ds) |-> DecChars[ds[i] + 1]]

\* the digits all, the last nf of them after the point, with the sign
F32Layout(neg, all, nf) ==
    (IF neg THEN <<"-">> ELSE <<>>)
    \o DigitText(SubSeq(all, 1, Len(all) - nf))
    \o (IF nf = 0 THEN <<>> ELSE <<".">> \o DigitText(SubSeqFrom(all, Len(all) - nf + 1)))

\* the whole digits and the shortest fraction sf, one added in the last place if
\* the higher decimal is the nearer
F32Digits(neg, low, sf) ==
    F32Layout(neg, IF sf.up THEN IncDigits(low \o sf.digits) ELSE low \o sf.digits,
              Len(sf.digits))

\* impl Display for f32 ({} and to_string): the shortest decimal that parses back
\* to the same f32, written without exponent
F32ToString(f) ==
    F32Digits(f.neg,
              IntDigits(IF f.e >= 31 THEN 0 ELSE f.m \div (2 ^ f.e)),
              ShortestFrac(IF f.e >= 31 THEN f.m ELSE f.m % (2 ^ f.e), f.e, 0, <<>>,
                           f.m = MantMin))

\* 255.0 * f in f32: the 32-bit product 255 * m cut to 24 bits, rounded to nearest even.
\* With m = 256 * mh + ml the product's bits above the low eight are q8.
F32Mul255(f) ==
    LET mh == f.m \div 256
        ml == f.m % 256
        q8 == U8Max * mh + (U8Max * ml) \div 256
        r8 == (U8Max * ml) % 256
    IN  IF f.m = 0 THEN f
        ELSE IF q8 >= MantMin
        THEN F32Scaled(f.neg, RoundNearestEven(q8, f.e - 8, r8 \div 128, r8 % 128 # 0), 0)
        ELSE F32Scaled(f.neg,
                       RoundNearestEven(2 * q8 + r8 \div 128, f.e - 7,
                                        (r8 % 128) \div 64, r8 % 64 # 0),
                       0)

\* f as u8: truncated toward zero, saturating at 0 and 255
F32AsU8(f) ==
    IF f.neg \/ f.m = 0 THEN 0
    ELSE IF f.e < MantBits - 8 THEN U8Max
    ELSE IF f.e >= MantBits THEN 0
    ELSE LET t == f.m \div (2 ^ f.e) IN IF t > U8Max THEN U8Max ELSE t

\* u as f32 / 255.0
F32DivU8By255(u) ==
    IF u = 0 THEN F32Zero ELSE F32Scaled(FALSE, DivRound(IntDigits(u), U8Max), 0)

(***************************************************************************)
(* colors.rs                                                               *)
(***************************************************************************)

Color(r, g, b, a) == [r |-> r, g |-> g, b |-> b, a |-> a]

\* const fn f2u(f: f32) -> u8 { (255.0 * f) as u8 }
f2u(f) == F32AsU8(F32Mul255(f))

\* a faulty u2f: u as f32 / 256.0
u2fBy256(u) ==
    IF u = 0 THEN F32Zero ELSE F32Scaled(FALSE, DivRound(IntDigits(u), U8Max + 1), 0)

\* const fn u2f(u: u8) -> f32 { u as f32 / 255.0 }
u2f(u) == F32DivU8By255(u)

\* Color::with_opacity
WithOpacity(c, opacity) == [c EXCEPT !.a = f2u(opacity)]

\* Color::opacity
Opacity(c) == u2f(c.a)

\* s[1..5].chars().for_each(|c| { r.push(c); r.push(c); })
RECURSIVE DoubleChars(_)
DoubleChars(s) ==
    IF s = <<>> THEN <<>> ELSE <<Head(s), Head(s)>> \o DoubleChars(Tail(s))

\* Ok(Color { r: r?, g: g?, b: b?, a: a? }) with Err = ()
ColorOfBytes(r, g, b, a) ==
    IF r.ok /\ g.ok /\ b.ok /\ a.ok THEN Ok(Color(r.val, g.val, b.val, a.val)) ELSE ErrUnit

\* the 9-byte arm of Color::from_str: four byte pairs, the first byte never read
ColorFromStr9(s) ==
    ColorOfBytes(U8FromStrRadix(SubSeq(s, 2, 3), 16), U8FromStrRadix(SubSeq(s, 4, 5), 16),
                 U8FromStrRadix(SubSeq(s, 6, 7), 16), U8FromStrRadix(SubSeq(s, 8, 9), 16))

\* impl FromStr for Color
RECURSIVE ColorFromStr(_)
ColorFromStr(s) ==
    CASE Len(s) = 4 -> ColorFromStr(s \o <<"F">>)
      [] Len(s) = 5 -> ColorFromStr(<<"#">> \o DoubleChars(SubSeq(s, 2, 5)))
      [] Len(s) = 7 -> ColorFromStr(s \o <<"F", "F">>)
      [] Len(s) = 9 -> ColorFromStr9(s)
      [] OTHER -> ErrUnit

\* impl Display for Color
ColorDisplay(c) ==
    <<"#">> \o Hex02X(c.r) \o Hex02X(c.g) \o Hex02X(c.b) \o Hex02X(c.a)

\* a faulty to_string_na: the red channel dropped, not the alpha
ToStringNaNoRed(c) == <<"#">> \o Hex02X(c.g) \o Hex02X(c.b) \o Hex02X(c.a)

\* Color::to_string_na
ToStringNa(c) == <<"#">> \o Hex02X(c.r) \o Hex02X(c.g) \o Hex02X(c.b)

(***************************************************************************)
(* lib.rs: DocumentError, elems_eq                                         *)
(***************************************************************************)

DocumentError(kind, name, value) ==
    [ok |-> FALSE, err |-> [kind |-> kind, name |-> name, value |-> value]]

MissingAttribute(name) == DocumentError("MissingAttribute", name, <<>>)

InvalidAttribute(name, value) == DocumentError("InvalidAttribute", name, value)

InvalidPoint(token) == DocumentError("InvalidPoint", "", token)

UnknownEvent == DocumentError("UnknownEvent", "", <<>>)

(***************************************************************************)
(* Texts: splitting and joining                                            *)
(***************************************************************************)

AsciiWhitespace == {" ", "\t", "\n", "\f", "\r"}

\* the index of the first character of s in set cs, or 0
FirstIn(s, cs) ==
    IF \E i \in 1 .. Len(s) : s[i] \in cs
    THEN CHOOSE i \in 1 .. Len(s) : s[i] \in cs /\ \A j \in 1 .. i - 1 : s[j] \notin cs
    ELSE 0

\* the pieces of s between the characters in cs, empty pieces kept: str::split
RECURSIVE SplitOn(_, _)
SplitOn(s, cs) ==
    LET i == FirstIn(s, cs)
    IN  IF i = 0 THEN <<s>>
        ELSE <<SubSeq(s, 1, i - 1)>> \o SplitOn(SubSeqFrom(s, i + 1), cs)

\* str::split(',')
SplitComma(s) == SplitOn(s, {","})

\* str::split_ascii_whitespace: the non-empty pieces between whitespace
SplitAsciiWhitespace(s) == SelectSeq(SplitOn(s, AsciiWhitespace), LAMBDA t : t # <<>>)

\* str::split_once(','): None, or the texts before and after the first comma
SplitOnceComma(s) ==
    LET i == FirstIn(s, {","})
    IN  IF i = 0 THEN None ELSE Some(<<SubSeq(s, 1, i - 1), SubSeqFrom(s, i + 1)>>)

\* Value::from(Vec<String>): the strings joined by one space
RECURSIVE JoinSpace(_)
JoinSpace(ts) ==
    IF Len(ts) = 0 THEN <<>>
    ELSE IF Len(ts) = 1 THEN ts[1]
    ELSE JoinSpace(SubSeq(ts, 1, Len(ts) \div 2))
         \o <<" ">>
         \o JoinSpace(SubSeq(ts, Len(ts) \div 2 + 1, Len(ts)))

\* u8's Display
U8ToString(n) == DigitText(IntDigits(n))

(***************************************************************************)
(* elements: reading attributes                                            *)
(*                                                                         *)
(* An attribute mapping is a function from attribute names to texts.       *)
(***************************************************************************)

Has(attributes, name) == name \in DOMAIN attributes

\* a faulty map_err: the raw text is not carried
OrInvalidAttributeNoValue(r, name, value) == IF r.ok THEN r ELSE InvalidAttribute(name, <<>>)

\* .map_err(|_| InvalidAttribute(name, value))
OrInvalidAttribute(r, name, value) == IF r.ok THEN r ELSE InvalidAttribute(name, value)

\* a faulty closure: without a readable opacity the colour is made transparent
MapWithOpacityOrClear(c, o) ==
    IF c.ok THEN Ok(WithOpacity(c.val, IF o.ok THEN o.val ELSE F32Zero)) ELSE c

\* .map(|c| if let Some(Ok(value)) = opacity { c.with_opacity(value) } else { c })
MapWithOpacity(c, o) == IF c.ok /\ o.ok THEN Ok(WithOpacity(c.val, o.val)) ELSE c

\* a colour attribute with its optional opacity attribute: the block each
\* from_attributes repeats for stroke and fill
ColorAttribute(attributes, name, opacityName) ==
    IF ~Has(attributes, name) THEN MissingAttribute(name)
    ELSE MapWithOpacity(
            OrInvalidAttribute(ColorFromStr(attributes[name]), name, attributes[name]),
            IF Has(attributes, opacityName) THEN F32FromStr(attributes[opacityName])
            ELSE ErrUnit)

\* a faulty f32 attribute: 0 when the attribute is absent
F32AttributeOrZero(attributes, name) ==
    IF ~Has(attributes, name) THEN Ok(F32Zero)
    ELSE OrInvalidAttribute(F32FromStr(attributes[name]), name, attributes[name])

\* an f32 attribute: the block each from_attributes repeats for its scalars
F32Attribute(attributes, name) ==
    IF ~Has(attributes, name) THEN MissingAttribute(name)
    ELSE OrInvalidAttribute(F32FromStr(attributes[name]), name, attributes[name])

\* svgnote:n of Ngon, a u8
U8Attribute(attributes, name) ==
    IF ~Has(attributes, name) THEN MissingAttribute(name)
    ELSE OrInvalidAttribute(U8FromStrRadix(attributes[name], 10), name, attributes[name])

\* if let (Ok(x), Ok(y)) = ... { Ok((x, y)) } else { Err(()) }
PairOf(x, y) == IF x.ok /\ y.ok THEN Ok(<<x.val, y.val>>) ELSE ErrUnit

\* value.split_once(',').ok_or(()).and_then(...)
PositionFromStr(v) ==
    IF v = None THEN ErrUnit ELSE PairOf(F32FromStr(v[1][1]), F32FromStr(v[1][2]))

\* svgnote:position of Ngon: "x,y" split at the first comma
PositionAttribute(attributes, name) ==
    IF ~Has(attributes, name) THEN MissingAttribute(name)
    ELSE OrInvalidAttribute(PositionFromStr(SplitOnceComma(attributes[name])), name,
                            attributes[name])

\* the fields a of a token as a point: arity of them, each an f32
PointOfFields(a, arity, token) ==
    IF Len(a) = arity /\ \A i \in 1 .. arity : F32FromStr(a[i]).ok
    THEN Ok([i \in 1 .. arity |-> F32FromStr(a[i]).val])
    ELSE InvalidPoint(token)

\* one token of a point list: arity comma-separated f32 fields
PointFromToken(token, arity) == PointOfFields(SplitComma(token), arity, token)

\* collect::<Result<_, _>>() over the tokens: the points, or the first error
RECURSIVE CollectPoints(_, _, _)
RECURSIVE CollectNext(_, _, _, _)

\* a faulty collect: a token that is no point is skipped
CollectNextSkip(p, tokens, arity, acc) ==
    IF ~p.ok THEN CollectPoints(Tail(tokens), arity, acc)
    ELSE CollectPoints(Tail(tokens), arity, Append(acc, p.val))

CollectNext(p, tokens, arity, acc) ==
    IF ~p.ok THEN p ELSE CollectPoints(Tail(tokens), arity, Append(acc, p.val))

CollectPoints(tokens, arity, acc) ==
    IF tokens = <<>> THEN Ok(acc)
    ELSE CollectNext(PointFromToken(Head(tokens), arity), tokens, arity, acc)

\* a point-list attribute
PointsAttribute(attributes, name, arity) ==
    IF ~Has(attributes, name) THEN MissingAttribute(name)
    ELSE CollectPoints(SplitAsciiWhitespace(attributes[name]), arity, <<>>)

(***************************************************************************)
(* elements/line.rs                                                        *)
(***************************************************************************)

Line(c, width, points) ==
    [kind |-> "Line", color |-> c, width |-> width, points |-> points]

\* Ok(Line { color: ..?, points: ..?, width: ..? }): the first error in this order
LineOf(c, points, width) ==
    IF ~c.ok THEN c
    ELSE IF ~points.ok THEN points
    ELSE IF ~width.ok THEN width
    ELSE Ok(Line(c.val, width.val, points.val))

\* a faulty decoder: the width is read from the viewer's stroke-width
LineFromStrokeWidth(attributes) ==
    LineOf(ColorAttribute(attributes, "stroke", "stroke-opacity"),
           PointsAttribute(attributes, "svgnote:points", 3),
           F32Attribute(attributes, "stroke-width"))

\* impl FromAttributes for Line: stroke, then svgnote:points, then svgnote:width
LineFromAttributes(attributes) ==
    LineOf(ColorAttribute(attributes, "stroke", "stroke-opacity"),
           PointsAttribute(attributes, "svgnote:points", 3),
           F32Attribute(attributes, "svgnote:width"))

(***************************************************************************)
(* elements/mod.rs: Ngon, Ellipse                                          *)
(***************************************************************************)

Ngon(position, stroke, fill, width, angle, n, radius) ==
    [kind |-> "Ngon", position |-> position, stroke |-> stroke, fill |-> fill,
     width |-> width, angle |-> angle, n |-> n, radius |-> radius]

\* a faulty order: the stroke is looked at first
NgonOfStrokeFirst(position, width, radius, n, angle, fill, stroke) ==
    IF ~stroke.ok THEN stroke
    ELSE IF ~position.ok THEN position
    ELSE IF ~width.ok THEN width
    ELSE IF ~radius.ok THEN radius
    ELSE IF ~n.ok THEN n
    ELSE IF ~angle.ok THEN angle
    ELSE IF ~fill.ok THEN fill
    ELSE Ok(Ngon(position.val, stroke.val, fill.val, width.val, angle.val, n.val,
                 radius.val))

\* Ok(Ngon { position: ..?, width: ..?, ... }): the first error in this order
NgonOf(position, width, radius, n, angle, fill, stroke) ==
    IF ~position.ok THEN position
    ELSE IF ~width.ok THEN width
    ELSE IF ~radius.ok THEN radius
    ELSE IF ~n.ok THEN n
    ELSE IF ~angle.ok THEN angle
    ELSE IF ~fill.ok THEN fill
    ELSE IF ~stroke.ok THEN stroke
    ELSE Ok(Ngon(position.val, stroke.val, fill.val, width.val, angle.val, n.val,
                 radius.val))

\* impl FromAttributes for Ngon
NgonFromAttributes(attributes) ==
    NgonOf(PositionAttribute(attributes, "svgnote:position"),
           F32Attribute(attributes, "stroke-width"),
           F32Attribute(attributes, "svgnote:radius"),
           U8Attribute(attributes, "svgnote:n"),
           F32Attribute(attributes, "svgnote:angle"),
           ColorAttribute(attributes, "fill", "fill-opacity"),
           ColorAttribute(attributes, "stroke", "stroke-opacity"))

Ellipse(position, stroke, fill, width, radius) ==
    [kind |-> "Ellipse", position |-> position, stroke |-> stroke, fill |-> fill,
     width |-> width, radius |-> radius]

\* Ok(Ellipse { position: (cx?, cy?), width: ..?, ... }): the first error in this order
EllipseOf(cx, cy, width, radius, fill, stroke) ==
    IF ~cx.ok THEN cx
    ELSE IF ~cy.ok THEN cy
    ELSE IF ~width.ok THEN width
    ELSE IF ~radius.ok THEN radius
    ELSE IF ~fill.ok THEN fill
    ELSE IF ~stroke.ok THEN stroke
    ELSE Ok(Ellipse(<<cx.val, cy.val>>, stroke.val, fill.val, width.val, radius.val))

\* impl FromAttributes for Ellipse
EllipseFromAttributes(attributes) ==
    EllipseOf(F32Attribute(attributes, "cx"),
              F32Attribute(attributes, "cy"),
              F32Attribute(attributes, "stroke-width"),
              F32Attribute(attributes, "rx"),
              ColorAttribute(attributes, "fill", "fill-opacity"),
              ColorAttribute(attributes, "stroke", "stroke-opacity"))

(***************************************************************************)
(* elements/polygon.rs                                                     *)
(***************************************************************************)

Polyline(stroke, fill, width, points) ==
    [kind |-> "Polyline", stroke |-> stroke, fill |-> fill, width |-> width,
     points |-> points]

\* Ok(Polyline { stroke: ..?, fill: ..?, points: ..?, width: ..? }): the first error
PolylineOf(stroke, fill, points, width) ==
    IF ~stroke.ok THEN stroke
    ELSE IF ~fill.ok THEN fill
    ELSE IF ~points.ok THEN points
    ELSE IF ~width.ok THEN width
    ELSE Ok(Polyline(stroke.val, fill.val, width.val, points.val))

\* impl FromAttributes for Polyline
PolylineFromAttributes(attributes) ==
    PolylineOf(ColorAttribute(attributes, "stroke", "stroke-opacity"),
               ColorAttribute(attributes, "fill", "fill-opacity"),
               PointsAttribute(attributes, "points", 2),
               F32Attribute(attributes, "stroke-width"))

(***************************************************************************)
(* Equality: the PartialEq impls                                           *)
(***************************************************************************)

\* derive(PartialEq) for Point and PolylinePoint: field by field
PointEq(p, q) == Len(p) = Len(q) /\ \A i \in 1 .. Len(p) : F32Eq(p[i], q[i])

\* elems_eq over points: equal lengths, and as many equal pairs as elements
PointsElemsEq(a, b) ==
    /\ Len(a) = Len(b)
    /\ Cardinality({i \in 1 .. Len(a) : PointEq(a[i], b[i])}) = Len(a)

\* PartialEq for Line, Polyline (by hand) and Ngon, Ellipse (derived)
ShapeEq(s, t) ==
    /\ s.kind = t.kind
    /\ CASE s.kind = "Line" ->
              /\ s.color = t.color
              /\ F32Eq(s.width, t.width)
              /\ PointsElemsEq(s.points, t.points)
         [] s.kind = "Ngon" ->
              /\ PointEq(s.position, t.position)
              /\ s.stroke = t.stroke /\ s.fill = t.fill
              /\ F32Eq(s.width, t.width) /\ F32Eq(s.angle, t.angle)
              /\ s.n = t.n /\ F32Eq(s.radius, t.radius)
         [] s.kind = "Ellipse" ->
              /\ PointEq(s.position, t.position)
              /\ s.stroke = t.stroke /\ s.fill = t.fill
              /\ F32Eq(s.width, t.width) /\ F32Eq(s.radius, t.radius)
         [] s.kind = "Polyline" ->
              /\ s.stroke = t.stroke /\ s.fill = t.fill
              /\ F32Eq(s.width, t.width)
              /\ PointsElemsEq(s.points, t.points)

\* enum Element { Line(Line, i32), ... }: the shape and its id
Element(s, n) == [shape |-> s, id |-> n]

\* derive(PartialEq) for Element: the same variant, equal shapes, equal ids
ElementEq(x, y) == ShapeEq(x.shape, y.shape) /\ x.id = y.id

\* elems_eq over elements, which is PartialEq for Document
ElementsElemsEq(a, b) ==
    /\ Len(a) = Len(b)
    /\ Cardinality({i \in 1 .. Len(a) : ElementEq(a[i], b[i])}) = Len(a)

(***************************************************************************)
(* Encoding: the From<&Shape> impls                                        *)
(***************************************************************************)

TxtRound == <<"r", "o", "u", "n", "d">>

TxtPen == <<"p", "e", "n">>

TxtNgon == <<"n", "g", "o", "n">>

\* "{},{}" and "{},{},{}": the fields joined by commas
RECURSIVE JoinComma(_)
JoinComma(fs) ==
    IF Len(fs) = 1 THEN F32ToString(fs[1])
    ELSE F32ToString(fs[1]) \o <<",">> \o JoinComma(Tail(fs))

\* Display for Point and PolylinePoint
PointToString(p) == JoinComma(p)

\* the path data of a Line: move to the first point (or 0,0), a line to each other
PathData(points) ==
    LET xy(p)  == <<p[1], p[2]>>
        first == IF points = <<>> THEN <<F32Zero, F32Zero>> ELSE xy(points[1])
        rest  == IF points = <<>> THEN <<>> ELSE Tail(points)
    IN  JoinSpace(<<<<"M">> \o JoinComma(first)>>
                  \o [i \in 1 .. Len(rest) |-> <<"L">> \o JoinComma(xy(rest[i]))])

\* impl From<&Line> for element::Path
LineToPath(line) ==
    ("stroke" :> ToStringNa(line.color))
    @@ ("stroke-opacity" :> F32ToString(Opacity(line.color)))
    @@ ("stroke-width" :> F32ToString(line.width))
    @@ ("svgnote:width" :> F32ToString(line.width))
    @@ ("svgnote:points" :>
            JoinSpace([i \in 1 .. Len(line.points) |-> PointToString(line.points[i])]))
    @@ ("svgnote:tool" :> TxtPen)
    @@ ("fill-opacity" :> <<"0">>)
    @@ ("stroke-linecap" :> TxtRound)
    @@ ("stroke-linejoin" :> TxtRound)
    @@ ("d" :> PathData(line.points))

\* impl From<&Ngon> for element::Polygon. The generated "points" hold the vertices
\* Ngon::points computes with f32 cos and sin, left open here: vertices is any
\* list of n (x, y) pairs.
NgonToPolygon(ngon, vertices) ==
    ("svgnote:position" :> JoinComma(ngon.position))
    @@ ("stroke" :> ToStringNa(ngon.stroke))
    @@ ("fill" :> ToStringNa(ngon.fill))
    @@ ("stroke-opacity" :> F32ToString(Opacity(ngon.stroke)))
    @@ ("fill-opacity" :> F32ToString(Opacity(ngon.fill)))
    @@ ("stroke-width" :> F32ToString(ngon.width))
    @@ ("svgnote:angle" :> F32ToString(ngon.angle))
    @@ ("svgnote:n" :> U8ToString(ngon.n))
    @@ ("svgnote:radius" :> F32ToString(ngon.radius))
    @@ ("svgnote:tool" :> TxtNgon)
    @@ ("stroke-linecap" :> TxtRound)
    @@ ("stroke-linejoin" :> TxtRound)
    @@ ("points" :> JoinSpace([i \in 1 .. Len(vertices) |-> JoinComma(vertices[i])]))

\* impl From<&Ellipse> for element::Ellipse
EllipseToElement(ellipse) ==
    ("stroke" :> ToStringNa(ellipse.stroke))
    @@ ("stroke-opacity" :> F32ToString(Opacity(ellipse.stroke)))
    @@ ("fill" :> ToStringNa(ellipse.fill))
    @@ ("fill-opacity" :> F32ToString(Opacity(ellipse.fill)))
    @@ ("stroke-width" :> F32ToString(ellipse.width))
    @@ ("cx" :> F32ToString(ellipse.position[1]))
    @@ ("cy" :> F32ToString(ellipse.position[2]))
    @@ ("rx" :> F32ToString(ellipse.radius))
    @@ ("ry" :> F32ToString(ellipse.radius))

\* impl From<&Polyline> for element::Polyline
PolylineToElement(polyline) ==
    ("stroke" :> ToStringNa(polyline.stroke))
    @@ ("fill" :> ToStringNa(polyline.fill))
    @@ ("stroke-opacity" :> F32ToString(Opacity(polyline.stroke)))
    @@ ("fill-opacity" :> F32ToString(Opacity(polyline.fill)))
    @@ ("stroke-width" :> F32ToString(polyline.width))
    @@ ("points" :>
            JoinSpace([i \in 1 .. Len(polyline.points) |-> PointToString(polyline.points[i])]))
    @@ ("stroke-linecap" :> TxtRound)
    @@ ("stroke-linejoin" :> TxtRound)

\* the tag each variant is written as (Document::fmt's doc.add::<...>)
TagOfKind(kind) ==
    CASE kind = "Line" -> "path"
      [] kind = "Ngon" -> "polygon"
      [] kind = "Ellipse" -> "ellipse"
      [] kind = "Polyline" -> "polyline"

(***************************************************************************)
(* elements/mod.rs: Element::from_event                                    *)
(*                                                                         *)
(* An event of the svg reader is [kind, name, type, attributes]: kind is   *)
(* "Tag" with a tag name and a type (Start, End, Empty), or another kind   *)
(* (Comment, Text, Declaration, Instruction, Error) with no name.          *)
(***************************************************************************)

Event(kind, name, type, attributes) ==
    [kind |-> kind, name |-> name, type |-> type, attributes |-> attributes]

NoAttributes == [n \in {} |-> <<>>]

\* a faulty wrapping: the id is not carried
AsElementNoId(r, n) == IF r.ok THEN Ok(Element(r.val, 0)) ELSE r

\* a faulty wrapping: the id is halved
AsElementHalfId(r, n) == IF r.ok THEN Ok(Element(r.val, n \div 2)) ELSE r

\* the result of a shape decode as an element with this id, or its error
AsElement(r, n) == IF r.ok THEN Ok(Element(r.val, n)) ELSE r

\* Element::from_event: the tag's type is not looked at
FromEvent(e, n) ==
    LET attributes == e.attributes
        tool == attributes["svgnote:tool"]
    IN  CASE e.kind = "Tag" /\ e.name = "path" ->
               IF ~Has(attributes, "svgnote:tool") THEN MissingAttribute("svgnote:tool")
               ELSE IF tool = TxtPen THEN AsElement(LineFromAttributes(attributes), n)
               ELSE InvalidAttribute("svgnote:tool", tool)
          [] e.kind = "Tag" /\ e.name = "polygon" ->
               IF ~Has(attributes, "svgnote:tool") THEN MissingAttribute("svgnote:tool")
               ELSE IF tool = TxtNgon THEN AsElement(NgonFromAttributes(attributes), n)
               ELSE InvalidAttribute("svgnote:tool", tool)
          [] e.kind = "Tag" /\ e.name = "polyline" ->
               AsElement(PolylineFromAttributes(attributes), n)
          [] e.kind = "Tag" /\ e.name = "ellipse" ->
               AsElement(EllipseFromAttributes(attributes), n)
          [] OTHER -> UnknownEvent

(***************************************************************************)
(* The colour codec as a machine: a Color is encoded (to_string,           *)
(* to_string_na) and the encoding parsed, or a given text is parsed.       *)
(***************************************************************************)

\* longest free-form colour text, over FreeChars
MaxFreeLen == 5

\* most characters after the first in a patterned colour text
MaxDigits == 9

FreeChars == {"#", "0", "f", "+", "G"}

HexCharSet == {UpperHexChars[i] : i \in 1 .. 16} \cup {LowerHexChars[i] : i \in 1 .. 16}

WideChars == HexCharSet \cup {"+", "-", "G", " "}

Heads == {"#", "G", "0"}

DigitCycles == {<<"0", "4", "A", "f", "9", "c", "E", "1", "b", "7">>, <<"F">>, <<"0">>}

FreeTexts == UNION {[1 .. n -> FreeChars] : n \in 0 .. MaxFreeLen}

\* n characters of a cycle, the p-th (if any) replaced by w
PatternBody(cycle, n, p, w) ==
    [i \in 1 .. n |-> IF i = p THEN w ELSE cycle[((i - 1) % Len(cycle)) + 1]]

PatternTexts ==
    {<<h>> \o PatternBody(cycle, n, p, w) :
        h \in Heads, cycle \in DigitCycles, n \in 0 .. MaxDigits,
        p \in 0 .. MaxDigits, w \in WideChars}

ColorTexts == FreeTexts \cup PatternTexts

ByteSample == {10, U8Max}

\* every value of each channel, beside sample values of the other three
Colors ==
    {Color(x, s1, s2, s3) : x \in U8, s1 \in ByteSample, s2 \in ByteSample, s3 \in ByteSample}
    \cup {Color(s1, x, s2, s3) : x \in U8, s1 \in ByteSample, s2 \in ByteSample, s3 \in ByteSample}
    \cup {Color(s1, s2, x, s3) : x \in U8, s1 \in ByteSample, s2 \in ByteSample, s3 \in ByteSample}
    \cup {Color(s1, s2, s3, x) : x \in U8, s1 \in ByteSample, s2 \in ByteSample, s3 \in ByteSample}

\* most thousandths in an opacity handed to with_opacity
MaxThousandths == 1000

\* opacities handed to with_opacity: 0, every a / 255, and the thousandths
\* from 0.004 on
Fractions ==
    {u2f(a) : a \in U8}
    \cup {F32OfDigits(FALSE, IntDigits(n), 3) : n \in 4 .. MaxThousandths}

\* the colours with_opacity is applied to
TintColors == {Color(255, 0, 0, 255), Color(13, 24, 51, 123), Color(255, 255, 255, 0)}

\* the colour codec at rest
ColorIdle ==
    color = <<>> /\ text = <<>> /\ na = <<>> /\ cresult = <<>> /\ fraction = <<>>

\* the shape machine at rest
ShapeIdle == shape = <<>> /\ event = <<>> /\ eid = 0 /\ sresult = <<>>

\* the document machine at rest
DocIdle ==
    doc = <<>> /\ events = <<>> /\ id = 0 /\ pos = 0 /\ elements = <<>> /\ dresult = <<>>

InitColor ==
    /\ pc = "start"
    /\ ShapeIdle
    /\ DocIdle
    /\ \/ color \in {Some(c) : c \in Colors} /\ text = None /\ fraction = None
       \/ color = None /\ text \in {Some(t) : t \in ColorTexts} /\ fraction = None
       \/ /\ color \in {Some(c) : c \in TintColors}
          /\ text = None
          /\ fraction \in {Some(f) : f \in Fractions}
    /\ na = None
    /\ cresult = None

\* color.to_string()
ColorToString ==
    /\ pc = "start"
    /\ color # None
    /\ text' = Some(ColorDisplay(color[1]))
    /\ pc' = "encoded"
    /\ UNCHANGED <<color, na, cresult, fraction, shapeVars, docVars>>

\* color.to_string_na()
ColorToStringNa ==
    /\ pc \in {"start", "encoded"}
    /\ color # None
    /\ na = None
    /\ na' = Some(ToStringNa(color[1]))
    /\ UNCHANGED <<pc, color, text, cresult, fraction, shapeVars, docVars>>

\* Color::from_str(&text)
ColorParse ==
    /\ pc \in {"start", "encoded"}
    /\ text # None
    /\ cresult' = Some(ColorFromStr(text[1]))
    /\ pc' = "parsed"
    /\ UNCHANGED <<color, text, na, fraction, shapeVars, docVars>>

\* color.with_opacity(fraction)
ColorWithOpacity ==
    /\ pc = "start"
    /\ color # None /\ fraction # None
    /\ cresult' = Some(Ok(WithOpacity(color[1], fraction[1])))
    /\ pc' = "tinted"
    /\ UNCHANGED <<color, text, na, fraction, shapeVars, docVars>>

\* color.opacity()
ColorOpacity ==
    /\ pc = "start"
    /\ color # None /\ fraction = None
    /\ fraction' = Some(Opacity(color[1]))
    /\ pc' = "measured"
    /\ UNCHANGED <<color, text, na, cresult, shapeVars, docVars>>

NextColor ==
    ColorToString \/ ColorToStringNa \/ ColorParse \/ ColorWithOpacity \/ ColorOpacity

SpecColor == InitColor /\ [][NextColor]_vars

(***************************************************************************)
(* The shapes as a machine: a shape is encoded (From<&Shape>) and the      *)
(* encoding decoded, or a given reader event is decoded, either by the     *)
(* decoder of its tag (from_attributes) or by Element::from_event.         *)
(***************************************************************************)

\* most points in a drawn point list
MaxPoints == 2

\* most attributes of a fixture replaced or removed at once
MaxFaults == 2

\* number of mantissas in the sweep of widths, less one
MaxSweep == 40

SweepStep == 2 ^ 16 + 1

\* the f32 of a decimal literal of the source: n / 10^k
F32Lit(n, k) == F32OfDigits(FALSE, IntDigits(n), k)

\* literals of tests::encoding and tests::parse, both zeros, a negative
FloatSample ==
    {F32Zero, F32Neg(F32Zero), F32Lit(5, 0), F32Lit(12313, 4), F32Lit(10213, 3),
     F32Neg(F32Lit(25, 1)), F32Lit(7853982, 7), F32Lit(132, 1)}

FloatPair == {F32Lit(3, 0), F32Neg(F32Lit(1123, 3))}

\* mantissas across the range, at the largest, the smallest and two middle exponents
FloatSweep ==
    {F32(neg, MantMin + k * SweepStep, e) :
        neg \in BOOLEAN, k \in 0 .. MaxSweep, e \in {0, 12, 23, 31}}

Red == Color(255, 0, 0, 255)

White0 == Color(255, 255, 255, 0)

\* Color::rgba(13, 24, 51, a) for every alpha, and the other colours of tests::encoding
ShapeColors ==
    {Color(13, 24, 51, a) : a \in U8}
    \cup {Red, White0, Color(255, 0, 0, 254), Color(255, 255, 12, 255)}

\* the LinePoints of tests::encoding
LinePoints ==
    {<<F32Zero, F32Zero, F32Zero>>,
     <<F32Lit(2, 0), F32Lit(10, 0), F32Lit(1, 0)>>,
     <<F32Lit(12313, 4), F32Lit(10213, 3), F32Lit(1123, 3)>>}

PolylinePoints ==
    {<<F32Zero, F32Zero>>, <<F32Lit(2, 0), F32Neg(F32Lit(10, 0))>>,
     <<F32Lit(12313, 4), F32Lit(10213, 3)>>}

\* the lists of at most n points of ps
PointLists(ps, n) == UNION {[1 .. k -> ps] : k \in 0 .. n}

Lines ==
    {Line(c, F32Lit(5, 0), <<<<F32Zero, F32Zero, F32Zero>>>>) : c \in ShapeColors}
    \cup {Line(Red, w, <<>>) : w \in FloatSweep}
    \cup {Line(Red, w, ps) : w \in FloatSample, ps \in PointLists(LinePoints, MaxPoints)}

Ngons ==
    LET p0 == <<F32Lit(3, 0), F32Lit(12, 0)>>
        w0 == F32Lit(15, 0)
        a0 == F32Lit(7853982, 7)
        r0 == F32Lit(5, 0)
    IN  {Ngon(p0, c, White0, w0, a0, 9, r0) : c \in ShapeColors}
        \cup {Ngon(p0, Red, c, w0, a0, 9, r0) : c \in ShapeColors}
        \cup {Ngon(p0, Red, White0, w0, a0, n, r0) : n \in U8}
        \cup {Ngon(<<x, y>>, Red, White0, w0, a0, 4, r0) : x \in FloatSample, y \in FloatSample}
        \cup {Ngon(p0, Red, White0, w, a, 4, r) :
                w \in FloatPair, a \in FloatSample, r \in FloatSample}

Ellipses ==
    LET p0 == <<F32Lit(10, 0), F32Lit(2, 0)>>
    IN  {Ellipse(p0, c, Color(255, 0, 0, 254), F32Lit(132, 1), F32Lit(122, 1)) :
            c \in ShapeColors}
        \cup {Ellipse(p0, Color(255, 255, 12, 255), c, F32Lit(132, 1), F32Lit(122, 1)) :
                c \in ShapeColors}
        \cup {Ellipse(<<x, y>>, Red, White0, w, r) :
                x \in FloatPair, y \in FloatSample, w \in FloatPair, r \in FloatSample}

Polylines ==
    {Polyline(c, White0, F32Lit(5, 0), <<<<F32Zero, F32Zero>>>>) : c \in ShapeColors}
    \cup {Polyline(Red, c, F32Lit(5, 0), <<<<F32Zero, F32Zero>>>>) : c \in ShapeColors}
    \cup {Polyline(Red, White0, w, ps) :
            w \in FloatSample, ps \in PointLists(PolylinePoints, MaxPoints)}

Shapes == Lines \cup Ngons \cup Ellipses \cup Polylines

Kinds == {"Line", "Ngon", "Ellipse", "Polyline"}

\* pairs standing for the vertices Ngon::points computes
VertexSample == {<<F32Zero, F32Zero>>, <<F32Lit(15, 0), F32Neg(F32Lit(25, 1))>>}

\* (&shape).into(), the n vertices of an Ngon all taken to be v
Encoding(s, v) ==
    CASE s.kind = "Line" -> LineToPath(s)
      [] s.kind = "Ngon" -> NgonToPolygon(s, [i \in 1 .. s.n |-> v])
      [] s.kind = "Ellipse" -> EllipseToElement(s)
      [] s.kind = "Polyline" -> PolylineToElement(s)

\* the decoder of each variant: the impls of trait FromAttributes
FromAttributes(kind, attributes) ==
    CASE kind = "Line" -> LineFromAttributes(attributes)
      [] kind = "Ngon" -> NgonFromAttributes(attributes)
      [] kind = "Ellipse" -> EllipseFromAttributes(attributes)
      [] kind = "Polyline" -> PolylineFromAttributes(attributes)

\* the variant a tag is read as
KindOfTag(name) == CHOOSE kind \in Kinds : TagOfKind(kind) = name

ShapeTags == {TagOfKind(kind) : kind \in Kinds}

\* the <path> of tests::parse
PathAttributes ==
    ("fill" :> <<"#", "0", "0", "0", "0", "0", "0">>)
    @@ ("stroke" :> <<"#", "0", "0", "0", "0", "0", "0">>)
    @@ ("fill-opacity" :> <<"0">>)
    @@ ("stroke-opacity" :> <<"1">>)
    @@ ("stroke-width" :> <<"4">>)
    @@ ("stroke-linecap" :> TxtRound)
    @@ ("stroke-linejoin" :> TxtRound)
    @@ ("d" :> <<"M", " ", "1", "0", ",", "1", "0", " ", "6", "0", ",", "3", "0", " ", "5", "0", ",", "6", "0", " ", "9", "0", ",", "1", "0">>)
    @@ ("svgnote:tool" :> TxtPen)
    @@ ("svgnote:width" :> <<"4">>)
    @@ ("svgnote:points" :> <<"1", "0", ",", "1", "0", ",", "1", " ", "6", "0", ",", "3", "0", ",", "4", " ", "5", "0", ",", "6", "0", ",", "3", " ", "9", "0", ",", "1", "0", ",", "2">>)

\* the <polygon> of tests::parse
PolygonAttributes ==
    ("fill" :> <<"#", "0", "0", "0", "0", "0", "0">>)
    @@ ("stroke" :> <<"#", "F", "F", "0", "0", "0", "0">>)
    @@ ("stroke-width" :> <<"3">>)
    @@ ("fill-opacity" :> <<"0">>)
    @@ ("stroke-opacity" :> <<"1">>)
    @@ ("stroke-linecap" :> TxtRound)
    @@ ("stroke-linejoin" :> TxtRound)
    @@ ("points" :> <<"1", "5">>)
    @@ ("svgnote:tool" :> TxtNgon)
    @@ ("svgnote:n" :> <<"4">>)
    @@ ("svgnote:angle" :> <<"0">>)
    @@ ("svgnote:position" :> <<"6", "5", ",", "6", "5">>)
    @@ ("svgnote:radius" :> <<"2", "0">>)

\* the <ellipse> of tests::parse
EllipseAttributes ==
    ("fill" :> <<"#", "F", "F", "F", "F", "0", "0">>)
    @@ ("stroke" :> <<"#", "F", "F", "F", "F", "0", "0">>)
    @@ ("fill-opacity" :> <<"0", ".", "3", "3", "3", "3", "3", "3", "3", "3", "3", "3">>)
    @@ ("stroke-opacity" :> <<"1">>)
    @@ ("stroke-width" :> <<"2">>)
    @@ ("cx" :> <<"6", "5">>)
    @@ ("cy" :> <<"6", "5">>)
    @@ ("rx" :> <<"1", "0">>)
    @@ ("ry" :> <<"1", "0">>)

\* a <polyline> in the manner of tests::parse
PolylineAttributes ==
    ("fill" :> <<"#", "0", "0", "0", "0", "0", "0">>)
    @@ ("stroke" :> <<"#", "F", "F", "0", "0", "0", "0">>)
    @@ ("fill-opacity" :> <<"0">>)
    @@ ("stroke-opacity" :> <<"1">>)
    @@ ("stroke-width" :> <<"3">>)
    @@ ("stroke-linecap" :> TxtRound)
    @@ ("stroke-linejoin" :> TxtRound)
    @@ ("points" :> <<"1", "0", ",", "1", "0", " ", "6", "0", ",", "3", "0", " ", "5", "0", ",", "6", "0">>)

BaseAttributes(kind) ==
    CASE kind = "Line" -> PathAttributes
      [] kind = "Ngon" -> PolygonAttributes
      [] kind = "Ellipse" -> EllipseAttributes
      [] kind = "Polyline" -> PolylineAttributes

\* the attributes each decoder requires, in the order its from_attributes reads them
Required(kind) ==
    CASE kind = "Line" -> <<"stroke", "svgnote:points", "svgnote:width">>
      [] kind = "Ngon" -> <<"svgnote:position", "stroke-width", "svgnote:radius",
                            "svgnote:n", "svgnote:angle", "fill", "stroke">>
      [] kind = "Ellipse" -> <<"cx", "cy", "stroke-width", "rx", "fill", "stroke">>
      [] kind = "Polyline" -> <<"stroke", "fill", "points", "stroke-width">>

\* the attributes of a fixture that are replaced or removed: those its decoder
\* reads, the opacities, the tool, and attributes no decoder reads
FaultNames(kind) ==
    CASE kind = "Line" ->
            Required(kind) \o <<"stroke-opacity", "svgnote:tool", "d", "stroke-width",
                                "fill", "fill-opacity">>
      [] kind = "Ngon" ->
            Required(kind) \o <<"stroke-opacity", "fill-opacity", "svgnote:tool", "points">>
      [] kind = "Ellipse" ->
            Required(kind) \o <<"stroke-opacity", "fill-opacity", "svgnote:tool", "ry">>
      [] kind = "Polyline" ->
            Required(kind) \o <<"stroke-opacity", "fill-opacity", "svgnote:tool">>

\* what an attribute is replaced by: None removes it; the texts are one or two
\* its parse rejects and one it accepts
Alternatives(name) ==
    CASE name \in {"stroke", "fill"} -> {None, Some(<<"#", "0", "g", "0">>), Some(<<"#", "4", "0", "0", "8">>)}
      [] name \in {"stroke-opacity", "fill-opacity"} ->
            {None, Some(<<"x">>), Some(<<"0", ".", "5">>)}
      [] name = "svgnote:n" -> {None, Some(<<"2", "5", "6">>), Some(<<"+", "7">>)}
      [] name = "svgnote:position" ->
            {None, Some(<<"6", "5">>), Some(<<"6", ",", "5", ",", "5">>), Some(<<"1", ".", "5", ",", "-", "2">>)}
      [] name = "svgnote:points" ->
            {None, Some(<<"1", ",", "2">>), Some(<<"1", ",", "2", ",", "3", " ", "4", ",", "x", ",", "6", " ", "7", ",", "8">>), Some(<<>>)}
      [] name = "points" ->
            {None, Some(<<"1", ",", "2", ",", "3">>), Some(<<"1", ",", "2", " ", "3", ",", "x", " ", "4">>), Some(<<>>)}
      [] name = "svgnote:tool" -> {None, Some(TxtPen), Some(TxtNgon), Some(<<"x">>)}
      [] name = "d" -> {None, Some(<<"x">>)}
      [] OTHER -> {None, Some(<<"1", "x">>), Some(<<"-", "2", ".", "5">>)}

\* the mapping with one attribute replaced (Some) or removed (None)
SetAttribute(attributes, name, v) ==
    IF v = None
    THEN [n \in DOMAIN attributes \ {name} |-> attributes[n]]
    ELSE [n \in DOMAIN attributes \cup {name} |-> IF n = name THEN v[1] ELSE attributes[n]]

\* the mappings that differ from attributes in at most k of names
RECURSIVE Perturbed(_, _, _)
Perturbed(attributes, names, k) ==
    IF k = 0 \/ names = <<>> THEN {attributes}
    ELSE Perturbed(attributes, Tail(names), k)
         \cup UNION {Perturbed(SetAttribute(attributes, Head(names), v), Tail(names), k - 1) :
                        v \in Alternatives(Head(names))}

TagTypes == {"Start", "End", "Empty"}

\* the other events of the reader, and tags around each fixture
OtherEvents ==
    {Event("Tag", name, type, BaseAttributes(kind)) :
        name \in ShapeTags \cup {"svg", "g"}, type \in TagTypes, kind \in Kinds}
    \cup {Event(kind, "", "", NoAttributes) :
            kind \in {"Comment", "Text", "Declaration", "Instruction", "Error"}}

\* ids handed to from_event
IdSample == {-1, 2, 5}

InitShape ==
    /\ pc = "start"
    /\ ColorIdle
    /\ DocIdle
    /\ sresult = None
    /\ \/ /\ shape \in {Some(s) : s \in Shapes}
          /\ event = None
          /\ eid \in IdSample
       \/ /\ shape = None
          /\ \E kind \in Kinds :
                event \in {Some(Event("Tag", TagOfKind(kind), "Empty", a)) :
                            a \in Perturbed(BaseAttributes(kind), FaultNames(kind), MaxFaults)}
          /\ eid = 2
       \/ /\ shape = None
          /\ event \in {Some(e) : e \in OtherEvents}
          /\ eid \in IdSample

\* (&shape).into(): the element a shape is written as
ShapeEncode ==
    /\ pc = "start"
    /\ shape # None
    /\ \E v \in VertexSample :
          event' = Some(Event("Tag", TagOfKind(shape[1].kind), "Empty", Encoding(shape[1], v)))
    /\ pc' = "encoded"
    /\ UNCHANGED <<shape, eid, sresult, colorVars, docVars>>

\* <Shape>::from_attributes(attributes), the decoder being that of the tag
ShapeFromAttributes ==
    /\ pc \in {"start", "encoded"}
    /\ event # None
    /\ event[1].kind = "Tag" /\ event[1].name \in ShapeTags
    /\ sresult' = Some(FromAttributes(KindOfTag(event[1].name), event[1].attributes))
    /\ pc' = "decoded"
    /\ UNCHANGED <<shape, event, eid, colorVars, docVars>>

\* Element::from_event(event, eid)
ElementFromEvent ==
    /\ pc \in {"start", "encoded"}
    /\ event # None
    /\ sresult' = Some(FromEvent(event[1], eid))
    /\ pc' = "dispatched"
    /\ UNCHANGED <<shape, event, eid, colorVars, docVars>>

NextShape == ShapeEncode \/ ShapeFromAttributes \/ ElementFromEvent

SpecShape == InitShape /\ [][NextShape]_vars

\* the decoders alone, on the tags of tests::parse with attributes removed or replaced
InitTag ==
    /\ pc = "start"
    /\ ColorIdle
    /\ DocIdle
    /\ shape = None /\ sresult = None
    /\ \E kind \in Kinds :
          event \in {Some(Event("Tag", TagOfKind(kind), "Empty", a)) :
                      a \in Perturbed(BaseAttributes(kind), FaultNames(kind), MaxFaults)}
    /\ eid = 2

NextTag == ShapeFromAttributes \/ ElementFromEvent

SpecTag == InitTag /\ [][NextTag]_vars

(***************************************************************************)
(* Documents as a machine: a Document is rendered (Display) and the text   *)
(* read back, or a given stream of reader events is read (from_str). The   *)
(* svg reader stands between the text and from_str: what the machine holds *)
(* is the events it yields. from_str maps, filters and collects them one   *)
(* at a time.                                                              *)
(***************************************************************************)

\* most elements in a drawn Document
MaxElements == 2

\* most events in a drawn stream
MaxEvents == 3

\* the shapes of tests::encoding, and a Polyline
DocShapes ==
    {Line(Red, F32Lit(5, 0),
          <<<<F32Zero, F32Zero, F32Zero>>,
            <<F32Lit(2, 0), F32Lit(10, 0), F32Lit(1, 0)>>,
            <<F32Lit(12313, 4), F32Lit(10213, 3), F32Lit(1123, 3)>>>>),
     Ngon(<<F32Lit(3, 0), F32Lit(12, 0)>>, Color(13, 24, 51, 123), White0, F32Lit(15, 0),
          F32Lit(7853982, 7), 9, F32Lit(5, 0)),
     Ellipse(<<F32Lit(10, 0), F32Lit(2, 0)>>, Color(255, 255, 12, 255),
             Color(255, 0, 0, 254), F32Lit(132, 1), F32Lit(122, 1)),
     Polyline(Red, White0, F32Lit(5, 0), <<<<F32Zero, F32Zero>>>>)}

\* ids of the elements of a drawn Document
DocIds == {0, 5, 6}

Documents ==
    UNION {[1 .. n -> {Element(s, i) : s \in DocShapes, i \in DocIds}] :
            n \in 0 .. MaxElements}

\* the events of a drawn stream: elements that decode, one that does not, a
\* closing element tag, and events that are no elements
StreamEvents ==
    {Event("Tag", "path", "Empty", PathAttributes),
     Event("Tag", "ellipse", "Start", EllipseAttributes),
     Event("Tag", "ellipse", "End", NoAttributes),
     Event("Tag", "polygon", "Empty", SetAttribute(PolygonAttributes, "svgnote:n", None)),
     Event("Tag", "svg", "Start", NoAttributes),
     Event("Text", "", "", NoAttributes)}

Streams == UNION {[1 .. n -> StreamEvents] : n \in 0 .. MaxEvents}

TextEvent == Event("Text", "", "", NoAttributes)

\* the events the reader yields between two tags of a rendered text: none, or a
\* Text event for the line break, according to ws
Between(ws) == IF ws THEN <<TextEvent>> ELSE <<>>

\* doc.add::<Path>(e.into()) and the like, as the reader yields it back
ElementEvent(el, v) ==
    Event("Tag", TagOfKind(el.shape.kind), "Empty", Encoding(el.shape, v))

\* the tags of the elements in order, each after a line break
ElementEvents(elems, v, ws) ==
    [i \in 1 .. (IF ws THEN 2 ELSE 1) * Len(elems) |->
        IF ws /\ i % 2 = 1 THEN TextEvent
        ELSE ElementEvent(elems[IF ws THEN i \div 2 ELSE i], v)]

\* the events the reader yields for the text Display writes for elems: the XML
\* instruction, the comment, the root tag, a tag for each element in order, and
\* the closing root tag
RenderedEvents(elems, v, ws) ==
    <<Event("Instruction", "", "", NoAttributes)>> \o Between(ws)
    \o <<Event("Comment", "", "", NoAttributes)>> \o Between(ws)
    \o (IF elems = <<>>
        THEN <<Event("Tag", "svg", "Empty", NoAttributes)>>
        ELSE <<Event("Tag", "svg", "Start", NoAttributes)>>
             \o ElementEvents(elems, v, ws)
             \o Between(ws)
             \o <<Event("Tag", "svg", "End", NoAttributes)>>)

InitDoc ==
    /\ pc = "start"
    /\ ColorIdle
    /\ ShapeIdle
    /\ id = 0 /\ pos = 0 /\ elements = <<>> /\ dresult = None
    /\ \/ doc \in {Some(d) : d \in Documents} /\ events = None
       \/ doc = None /\ events \in {Some(es) : es \in Streams}

\* doc.to_string(), and svg::read on the text
DocumentToString ==
    /\ pc = "start"
    /\ doc # None
    /\ \E v \in VertexSample, ws \in BOOLEAN :
          events' = Some(RenderedEvents(doc[1], v, ws))
    /\ pc' = "rendered"
    /\ UNCHANGED <<doc, id, pos, elements, dresult, colorVars, shapeVars>>

\* Document::from_str: let mut id = 1
FromStrStart ==
    /\ pc \in {"start", "rendered"}
    /\ events # None
    /\ id' = 1
    /\ pos' = 0
    /\ pc' = "reading"
    /\ UNCHANGED <<doc, events, elements, dresult, colorVars, shapeVars>>

\* a faulty collect: a failing element is left out and the reading goes on
FromStrTakeLenient(r) ==
    IF r = UnknownEvent \/ ~r.ok THEN UNCHANGED <<pc, elements, dresult>>
    ELSE elements' = Append(elements, r.val) /\ UNCHANGED <<pc, dresult>>

\* what filter and collect do with the result r of one event
FromStrTake(r) ==
    IF r = UnknownEvent THEN UNCHANGED <<pc, elements, dresult>>
    ELSE IF ~r.ok THEN pc' = "done" /\ dresult' = Some(r) /\ UNCHANGED elements
    ELSE elements' = Append(elements, r.val) /\ UNCHANGED <<pc, dresult>>

\* a faulty counter: it advances for opening tags only
NextIdOfTags(n, e) == IF e.kind = "Tag" /\ e.type # "End" THEN n + 1 ELSE n

\* { id += 1; id } in the closure handed to map: once for the event e, whatever it is
NextId(n, e) == n + 1

\* Document::from_str: the next event through map, filter and collect
FromStrNext ==
    /\ pc = "reading"
    /\ pos < Len(events[1])
    /\ pos' = pos + 1
    /\ id' = NextId(id, events[1][pos + 1])
    /\ FromStrTake(FromEvent(events[1][pos + 1], id'))
    /\ UNCHANGED <<doc, events, colorVars, shapeVars>>

\* Document::from_str: the events are spent, Ok(Self { elements })
FromStrCollect ==
    /\ pc = "reading"
    /\ pos = Len(events[1])
    /\ dresult' = Some(Ok(elements))
    /\ pc' = "done"
    /\ UNCHANGED <<doc, events, id, pos, elements, colorVars, shapeVars>>

NextDoc == DocumentToString \/ FromStrStart \/ FromStrNext \/ FromStrCollect

SpecDoc == InitDoc /\ [][NextDoc]_vars

(***************************************************************************)
(* Properties                                                              *)
(***************************************************************************)

\* whether the value of a present attribute passes the parse its decoder applies
ValueParses(attributes, name) ==
    CASE name \in {"stroke", "fill"} -> ColorFromStr(attributes[name]).ok
      [] name = "svgnote:position" ->
            PositionFromStr(SplitOnceComma(attributes[name])).ok
      [] name = "svgnote:n" -> U8FromStrRadix(attributes[name], 10).ok
      [] name = "svgnote:points" ->
            CollectPoints(SplitAsciiWhitespace(attributes[name]), 3, <<>>).ok
      [] name = "points" ->
            CollectPoints(SplitAsciiWhitespace(attributes[name]), 2, <<>>).ok
      [] OTHER -> F32FromStr(attributes[name]).ok

PointListNames == {"svgnote:points", "points"}

\* the opacity attributes a decoder reads
OpacityNames(kind) ==
    IF kind = "Line" THEN {"stroke-opacity"} ELSE {"stroke-opacity", "fill-opacity"}

\* the places in Required(kind) of the attributes missing from a mapping
AbsentRequired(kind, attributes) ==
    {i \in 1 .. Len(Required(kind)) : ~Has(attributes, Required(kind)[i])}

\* the places in Required(kind) of the attributes present with a value that does not parse
FailingRequired(kind, attributes) ==
    {i \in 1 .. Len(Required(kind)) :
        /\ Has(attributes, Required(kind)[i])
        /\ ~ValueParses(attributes, Required(kind)[i])}

\* the scalar and colour attributes a decoder reads, the opacities among them,
\* that are present with a value that does not parse
FailingScalars(kind, attributes) ==
    {name \in ({Required(kind)[i] : i \in 1 .. Len(Required(kind))} \ PointListNames)
                \cup OpacityNames(kind) :
        Has(attributes, name) /\ ~ValueParses(attributes, name)}

\* the point-list attribute of a variant and its fields per token
PointListOf(kind) ==
    IF kind = "Line" THEN [name |-> "svgnote:points", arity |-> 3]
    ELSE [name |-> "points", arity |-> 2]

\* the tokens of a point list
TokensOf(kind, attributes) == SplitAsciiWhitespace(attributes[PointListOf(kind).name])

\* the places of the tokens with a wrong field count or a field that is no number
BadTokens(kind, attributes) ==
    {i \in 1 .. Len(TokensOf(kind, attributes)) :
        LET fields == SplitComma(TokensOf(kind, attributes)[i])
        IN  \/ Len(fields) # PointListOf(kind).arity
            \/ \E j \in 1 .. Len(fields) : ~F32FromStr(fields[j]).ok}

Least(S) == CHOOSE i \in S : \A j \in S : i <= j

\* a mapping has been decoded by the decoder of its tag
Decoded == pc = "decoded"

DecodedKind == KindOfTag(event[1].name)

DecodedAttributes == event[1].attributes

\* C1: parsing the text rendered from a Document built in memory, whatever ids
\* its elements carry, returns a Document equal to it: the same length and, index
\* by index, elements equal in shape and in id.
DocumentRoundTrip ==
    (pc = "done" /\ doc # None)
        => (dresult[1].ok /\ ElementsElemsEq(dresult[1].val, doc[1]))

\* C1, the failing run: a Document of one Line with id 0 is rendered and read
\* back; the Line returns with the same shape and another id.
DocumentRoundTripLosesId ==
    /\ pc = "done"
    /\ doc # None /\ Len(doc[1]) = 1
    /\ doc[1][1].id = 0 /\ doc[1][1].shape.kind = "Line"
    /\ dresult[1].ok /\ Len(dresult[1].val) = 1
    /\ ShapeEq(dresult[1].val[1].shape, doc[1][1].shape)
    /\ dresult[1].val[1].id # 0

\* C2: decoding the mapping a shape is encoded to returns a shape equal to it,
\* for each of the four variants: every alpha written as an opacity and read
\* through with_opacity, every point list in its order, the empty one too.
ShapeRoundTrip ==
    (Decoded /\ shape # None) => (sresult[1].ok /\ ShapeEq(sresult[1].val, shape[1]))

\* C2, reached: a Line of alpha 1 with a point has been encoded and decoded to itself.
ShapeRoundTripReached ==
    /\ Decoded
    /\ shape # None /\ shape[1].kind = "Line"
    /\ shape[1].color.a = 1 /\ Len(shape[1].points) = 1
    /\ sresult = Some(Ok(shape[1]))

\* C3: parsing the canonical text a Color is encoded to succeeds and returns
\* that Color, for all channel values.
ColourRoundTrip ==
    (pc = "parsed" /\ color # None) => cresult = Some(Ok(color[1]))

\* C3, reached: a Color with channels below 16 has been encoded and parsed back.
ColourRoundTripReached ==
    /\ pc = "parsed"
    /\ color = Some(Color(10, 255, 10, 255))
    /\ text = Some(<<"#", "0", "A", "F", "F", "0", "A", "F", "F">>)
    /\ cresult = Some(Ok(Color(10, 255, 10, 255)))

\* C4: '#' and 3, 4, 6 or 8 hex digits of either case parse to the Color whose
\* channels are the doubled digits (3, 4) or the digit pairs (6, 8), the alpha
\* 255 when the text has none.
ColourShortForms ==
    (/\ pc = "parsed"
     /\ color = None
     /\ Len(text[1]) \in {4, 5, 7, 9}
     /\ text[1][1] = "#"
     /\ \A i \in 2 .. Len(text[1]) : text[1][i] \in HexCharSet)
        => LET t    == text[1]
               h(i) == CHOOSE v \in 0 .. 15 :
                          UpperHexChars[v + 1] = t[i] \/ LowerHexChars[v + 1] = t[i]
               c    == CASE Len(t) = 4 -> Color(17 * h(2), 17 * h(3), 17 * h(4), 255)
                         [] Len(t) = 5 ->
                               Color(17 * h(2), 17 * h(3), 17 * h(4), 17 * h(5))
                         [] Len(t) = 7 ->
                               Color(16 * h(2) + h(3), 16 * h(4) + h(5),
                                     16 * h(6) + h(7), 255)
                         [] Len(t) = 9 ->
                               Color(16 * h(2) + h(3), 16 * h(4) + h(5),
                                     16 * h(6) + h(7), 16 * h(8) + h(9))
           IN  cresult = Some(Ok(c))

\* C4, reached: the four-digit text #04Af, a lower-case digit in it, has been
\* parsed to (00, 44, AA, FF).
ColourShortFormsReached ==
    /\ pc = "parsed"
    /\ text = Some(<<"#", "0", "4", "A", "f">>)
    /\ cresult = Some(Ok(Color(0, 68, 170, 255)))

\* C5: a text Color::from_str accepts is '#' followed by exactly 3, 4, 6 or 8
\* hex digits; every other text is rejected.
ColourParseRejection ==
    (pc = "parsed" /\ cresult[1].ok)
        => /\ Len(text[1]) \in {4, 5, 7, 9}
           /\ text[1][1] = "#"
           /\ \A i \in 2 .. Len(text[1]) : text[1][i] \in HexCharSet

\* C5, the failing run: the text 0000, which has no '#', has been parsed to a Color.
ColourParseAcceptsNoHash ==
    /\ pc = "parsed"
    /\ text = Some(<<"0", "0", "0", "0">>)
    /\ cresult = Some(Ok(Color(0, 0, 0, 255)))

\* C6: the encoding of a Color is '#' and eight upper-case hex digits, two a
\* channel in the order r, g, b, a; to_string_na is its first seven characters.
ColourEncoding ==
    LET up(ch) == \E v \in 1 .. 16 : UpperHexChars[v] = ch
        h(ch)  == (CHOOSE v \in 1 .. 16 : UpperHexChars[v] = ch) - 1
        byte(t, i) == 16 * h(t[i]) + h(t[i + 1])
    IN  /\ (color # None /\ pc \in {"encoded", "parsed"})
            => /\ Len(text[1]) = 9
               /\ text[1][1] = "#"
               /\ \A i \in 2 .. 9 : up(text[1][i])
               /\ byte(text[1], 2) = color[1].r
               /\ byte(text[1], 4) = color[1].g
               /\ byte(text[1], 6) = color[1].b
               /\ byte(text[1], 8) = color[1].a
        /\ (color # None /\ na # None)
            => /\ Len(na[1]) = 7
               /\ na[1][1] = "#"
               /\ \A i \in 2 .. 7 : up(na[1][i])
               /\ byte(na[1], 2) = color[1].r
               /\ byte(na[1], 4) = color[1].g
               /\ byte(na[1], 6) = color[1].b
        /\ (color # None /\ na # None /\ pc \in {"encoded", "parsed"})
            => na[1] = SubSeq(text[1], 1, 7)

\* C6, reached: (10, 255, 10, 255) has been encoded both ways.
ColourEncodingReached ==
    /\ color = Some(Color(10, 255, 10, 255))
    /\ text = Some(<<"#", "0", "A", "F", "F", "0", "A", "F", "F">>)
    /\ na = Some(<<"#", "0", "A", "F", "F", "0", "A">>)

\* C7 as stated: when one required attribute X is missing and all the others
\* are present, whatever their values, the decode fails with MissingAttribute(X).
MissingAttributeWhateverValues ==
    (Decoded /\ Cardinality(AbsentRequired(DecodedKind, DecodedAttributes)) = 1)
        => sresult = Some(MissingAttribute(
                Required(DecodedKind)[Least(AbsentRequired(DecodedKind, DecodedAttributes))]))

\* C7: when one required attribute X is missing, and the required attributes
\* the decoder reads before X hold values that parse, the decode fails with
\* MissingAttribute(X), whatever the values of the attributes read after X.
MissingAttributeNamed ==
    (/\ Decoded
     /\ Cardinality(AbsentRequired(DecodedKind, DecodedAttributes)) = 1
     /\ \A j \in FailingRequired(DecodedKind, DecodedAttributes) :
            j > Least(AbsentRequired(DecodedKind, DecodedAttributes)))
        => sresult = Some(MissingAttribute(
                Required(DecodedKind)[Least(AbsentRequired(DecodedKind, DecodedAttributes))]))

\* C7, reached: a polygon without svgnote:n, its fill no colour, has been
\* decoded to MissingAttribute(svgnote:n).
MissingAttributeReached ==
    /\ Decoded
    /\ event[1].name = "polygon"
    /\ ~Has(DecodedAttributes, "svgnote:n")
    /\ Has(DecodedAttributes, "fill") /\ ~ValueParses(DecodedAttributes, "fill")
    /\ sresult = Some(MissingAttribute("svgnote:n"))

\* C8 as stated: when every required attribute is present and exactly one
\* scalar or colour attribute X holds a value that does not parse, the decode
\* fails with InvalidAttribute(X, the text of X).
InvalidAttributeExactlyOne ==
    (/\ Decoded
     /\ AbsentRequired(DecodedKind, DecodedAttributes) = {}
     /\ Cardinality(FailingScalars(DecodedKind, DecodedAttributes)) = 1)
        => \E x \in FailingScalars(DecodedKind, DecodedAttributes) :
                sresult = Some(InvalidAttribute(x, DecodedAttributes[x]))

\* C8: when every required attribute is present and exactly one of them, X,
\* holds a value that does not parse, X a scalar or a colour, the decode fails
\* with InvalidAttribute(X, the text of X), whatever the opacity attributes hold.
InvalidAttributeNamed ==
    (/\ Decoded
     /\ AbsentRequired(DecodedKind, DecodedAttributes) = {}
     /\ Cardinality(FailingRequired(DecodedKind, DecodedAttributes)) = 1
     /\ \A i \in FailingRequired(DecodedKind, DecodedAttributes) :
            Required(DecodedKind)[i] \notin PointListNames)
        => \E i \in FailingRequired(DecodedKind, DecodedAttributes) :
                sresult = Some(InvalidAttribute(Required(DecodedKind)[i],
                                                DecodedAttributes[Required(DecodedKind)[i]]))

\* C8, reached: a polygon whose position is 6,5,5 and whose fill-opacity is no
\* number has been decoded to InvalidAttribute(svgnote:position, 6,5,5).
InvalidAttributeReached ==
    /\ Decoded
    /\ event[1].name = "polygon"
    /\ Has(DecodedAttributes, "fill-opacity")
    /\ ~ValueParses(DecodedAttributes, "fill-opacity")
    /\ sresult = Some(InvalidAttribute("svgnote:position", <<"6", ",", "5", ",", "5">>))

\* C9 as stated: when the point list of a Line or a Polyline holds a token
\* with a wrong field count or a field that is no number, the decode fails with
\* InvalidPoint(the first such token).
InvalidPointAlways ==
    (/\ Decoded
     /\ DecodedKind \in {"Line", "Polyline"}
     /\ Has(DecodedAttributes, PointListOf(DecodedKind).name)
     /\ BadTokens(DecodedKind, DecodedAttributes) # {})
        => sresult = Some(InvalidPoint(
                TokensOf(DecodedKind, DecodedAttributes)[
                    Least(BadTokens(DecodedKind, DecodedAttributes))]))

\* C9: when the point list of a Line or a Polyline holds a token with a wrong
\* field count or a field that is no number, and the colours the decoder reads
\* before the point list are present with values that parse, the decode fails
\* with InvalidPoint(the first such token), whatever the other tokens and the
\* attributes read after the point list hold.
InvalidPointFirst ==
    (/\ Decoded
     /\ DecodedKind \in {"Line", "Polyline"}
     /\ Has(DecodedAttributes, PointListOf(DecodedKind).name)
     /\ BadTokens(DecodedKind, DecodedAttributes) # {}
     /\ \A j \in AbsentRequired(DecodedKind, DecodedAttributes)
                    \cup FailingRequired(DecodedKind, DecodedAttributes) :
            Required(DecodedKind)[j] = PointListOf(DecodedKind).name
            \/ \E k \in 1 .. j - 1 :
                    Required(DecodedKind)[k] = PointListOf(DecodedKind).name)
        => sresult = Some(InvalidPoint(
                TokensOf(DecodedKind, DecodedAttributes)[
                    Least(BadTokens(DecodedKind, DecodedAttributes))]))

\* C9, reached: a path whose points are 1,2,3 4,x,6 7,8 and whose width is
\* missing has been decoded to InvalidPoint(4,x,6).
InvalidPointReached ==
    /\ Decoded
    /\ event[1].name = "path"
    /\ ~Has(DecodedAttributes, "svgnote:width")
    /\ Has(DecodedAttributes, "svgnote:points")
    /\ Len(TokensOf("Line", DecodedAttributes)) = 3
    /\ BadTokens("Line", DecodedAttributes) = {2, 3}
    /\ sresult = Some(InvalidPoint(<<"4", ",", "x", ",", "6">>))

\* C10: from_event reads a path as a Line exactly when svgnote:tool is pen and
\* a polygon as an Ngon exactly when it is ngon; without the tool these two fail
\* with MissingAttribute(svgnote:tool), with another tool with
\* InvalidAttribute(svgnote:tool, its text), whatever the other attributes hold;
\* a polyline is read as a Polyline and an ellipse as an Ellipse whatever the
\* tool; the element returned carries the id handed in.
ElementDispatch ==
    (pc = "dispatched" /\ event[1].kind = "Tag" /\ event[1].name \in ShapeTags)
        => LET a    == event[1].attributes
               r    == sresult[1]
               kind == KindOfTag(event[1].name)
               tool == IF kind = "Line" THEN TxtPen ELSE TxtNgon
               d    == FromAttributes(kind, a)
           IN  /\ (kind \in {"Line", "Ngon"} /\ ~Has(a, "svgnote:tool"))
                    => r = MissingAttribute("svgnote:tool")
               /\ (kind \in {"Line", "Ngon"} /\ Has(a, "svgnote:tool")
                        /\ a["svgnote:tool"] # tool)
                    => r = InvalidAttribute("svgnote:tool", a["svgnote:tool"])
               /\ (kind \in {"Ellipse", "Polyline"}
                        \/ (Has(a, "svgnote:tool") /\ a["svgnote:tool"] = tool))
                    => /\ r.ok = d.ok
                       /\ ~r.ok => r = d
                       /\ r.ok => /\ r.val.shape = d.val
                                  /\ r.val.shape.kind = kind
                                  /\ r.val.id = eid

\* C10, reached: a polyline whose svgnote:tool is pen has been read as a
\* Polyline carrying the id handed in.
ElementDispatchReached ==
    /\ pc = "dispatched"
    /\ event[1].kind = "Tag" /\ event[1].name = "polyline"
    /\ Has(event[1].attributes, "svgnote:tool")
    /\ event[1].attributes["svgnote:tool"] = TxtPen
    /\ sresult[1].ok
    /\ sresult[1].val.shape.kind = "Polyline"
    /\ sresult[1].val.id = eid

(***************************************************************************)
(* Properties of Document::from_str over a stream of reader events         *)
(***************************************************************************)

\* a stream has been read to its end or to its first error
Read == pc = "done" /\ events # None

\* an opening tag: <name ...> or <name .../>
TagOpen(e) == e.kind = "Tag" /\ e.type \in {"Start", "Empty"}

\* an opening tag with the name of one of the four shapes
ShapeTagOpen(e) == TagOpen(e) /\ e.name \in ShapeTags

\* the places in a stream of the opening shape tags
ShapeTagOpens(es) == {i \in 1 .. Len(es) : ShapeTagOpen(es[i])}

\* what from_event returns for the event at place i of a stream, whose id is i + 1
DecodedAt(es, i) == FromEvent(es[i], i + 1)

\* what from_event returns for each event of a stream
Results(es) == [i \in 1 .. Len(es) |-> DecodedAt(es, i)]

\* the places, in the results of a stream, of the errors that are not UnknownEvent
FailingAt(rs) == {i \in 1 .. Len(rs) : rs[i] # UnknownEvent /\ ~rs[i].ok}

\* the places, in the results of a stream, of the elements
ElementAt(rs) == {i \in 1 .. Len(rs) : rs[i].ok}

\* the k-th least member of a set of places
RECURSIVE Nth(_, _)
Nth(S, k) == IF k = 1 THEN Least(S) ELSE Nth(S \ {Least(S)}, k - 1)

\* C11: from_str applies the element decode to opening tags only and drops every
\* other event (comments, text, declarations, tags of other names, closing tags
\* also of the four shape names) without an element and without an error: when
\* every opening shape tag of the stream decodes, the Document returned holds
\* the shapes of these tags, one each, in stream order.
DecodeFiltering ==
    Read =>
        LET es    == events[1]
            opens == ShapeTagOpens(es)
        IN  (\A i \in opens : DecodedAt(es, i).ok)
                => /\ dresult[1].ok
                   /\ Len(dresult[1].val) = Cardinality(opens)
                   /\ \A k \in 1 .. Cardinality(opens) :
                         dresult[1].val[k].shape = DecodedAt(es, Nth(opens, k)).val.shape

\* C11, the failing run: the stream <ellipse ...> </ellipse>, whose opening tag
\* decodes, has been read; the closing tag went through Ellipse::from_attributes
\* and from_str returned MissingAttribute(cx).
DecodeFilteringClosingTag ==
    /\ Read
    /\ events[1] = <<Event("Tag", "ellipse", "Start", EllipseAttributes),
                     Event("Tag", "ellipse", "End", NoAttributes)>>
    /\ dresult = Some(MissingAttribute("cx"))
    /\ Len(elements) = 1

\* C12: when from_event fails on some event of the stream with MissingAttribute,
\* InvalidAttribute or InvalidPoint, from_str returns the error of the first such
\* event in stream order and no Document; the events after it are not taken
\* from the reader.
DecodeAllOrNothing ==
    Read =>
        LET rs == Results(events[1])
            F  == FailingAt(rs)
        IN  IF F = {}
            THEN dresult[1].ok
            ELSE /\ ~dresult[1].ok
                 /\ dresult[1] = rs[Least(F)]
                 /\ dresult[1].err.kind \in {"MissingAttribute", "InvalidAttribute", "InvalidPoint"}
                 /\ pos = Least(F)
                 /\ Len(elements) = Cardinality({i \in ElementAt(rs) : i < Least(F)})

\* C12, reached: a path that decodes, then a polygon without svgnote:n, then
\* another path; from_str returned MissingAttribute(svgnote:n) after two events,
\* the Line it had collected is not returned.
DecodeAllOrNothingReached ==
    /\ Read
    /\ Len(events[1]) = 3
    /\ events[1][1].name = "path" /\ events[1][2].name = "polygon"
    /\ events[1][3].name = "path"
    /\ dresult = Some(MissingAttribute("svgnote:n"))
    /\ Len(elements) = 1
    /\ pos = 2

\* C15: in a Document from_str returns, the ids of the elements are strictly
\* increasing along the sequence, hence pairwise distinct.
IdsIncreasing ==
    (pc = "done" /\ dresult[1].ok)
        => \A i, j \in 1 .. Len(dresult[1].val) :
              i < j => dresult[1].val[i].id < dresult[1].val[j].id

\* C15, reached: a Document of two elements or more has been returned for a
\* stream that was given.
IdsIncreasingReached ==
    /\ pc = "done" /\ dresult[1].ok
    /\ Len(dresult[1].val) >= 2
    /\ dresult[1].val[1].id < dresult[1].val[2].id
    /\ doc = None

\* C16, as stated: the counter advances once per opening tag and for no other
\* event, so that the element of the k-th opening tag of the stream has id k + 1.
IdPerTagOpen ==
    (Read /\ dresult[1].ok)
        => LET es == events[1]
               at == ElementAt(Results(es))
           IN  \A k \in 1 .. Len(dresult[1].val) :
                  dresult[1].val[k].id
                      = 1 + Cardinality({i \in 1 .. Nth(at, k) : TagOpen(es[i])})

\* C16, amended: the counter advances once per event of the reader, whatever
\* its kind: after pos events it is pos + 1, and the element decoded from the
\* event at place i of the stream has id i + 1 (2 for the first event).
IdPerEvent ==
    /\ pc \in {"reading", "done"} => id = pos + 1
    /\ (Read /\ dresult[1].ok)
          => LET at == ElementAt(Results(events[1]))
             IN  /\ Len(dresult[1].val) = Cardinality(at)
                 /\ \A k \in 1 .. Len(dresult[1].val) :
                       dresult[1].val[k].id = Nth(at, k) + 1

\* C16, reached: a Text event and then a path have been read; the Line has id 3,
\* not the 2 of a first opening tag.
IdPerEventReached ==
    /\ Read
    /\ Len(events[1]) = 2
    /\ events[1][1].kind = "Text" /\ events[1][2].name = "path"
    /\ dresult[1].ok /\ Len(dresult[1].val) = 1
    /\ dresult[1].val[1].id = 3

(***************************************************************************)
(* Properties of the opacity attributes                                    *)
(***************************************************************************)

\* the colour attributes a decoder reads, each with its opacity attribute and
\* the field of the shape it fills
ColourFields(kind) ==
    IF kind = "Line"
    THEN {[name |-> "stroke", opacity |-> "stroke-opacity", field |-> "color"]}
    ELSE {[name |-> "stroke", opacity |-> "stroke-opacity", field |-> "stroke"],
          [name |-> "fill", opacity |-> "fill-opacity", field |-> "fill"]}

\* a mapping without these attributes
Without(attributes, names) == [n \in DOMAIN attributes \ names |-> attributes[n]]

\* C13: for stroke with stroke-opacity and fill with fill-opacity, in every
\* variant that reads them: an opacity that is present and parses as a float f
\* makes the decoded colour with_opacity(f) of the colour text's colour, whatever
\* alpha digits the text has; an opacity that is absent or does not parse leaves
\* the colour of the text (alpha 255 for the 3- and 6-digit forms). The opacity
\* attributes never make a decode fail: it succeeds or fails, with the same
\* error, as it does without them.
OpacityOverride ==
    Decoded =>
        LET a == DecodedAttributes
            r == sresult[1]
            bare == FromAttributes(DecodedKind, Without(a, OpacityNames(DecodedKind)))
        IN  /\ r.ok = bare.ok
            /\ ~r.ok => r = bare
            /\ r.ok =>
                 \A c \in ColourFields(DecodedKind) :
                    LET parsed == ColorFromStr(a[c.name]).val
                    IN  IF Has(a, c.opacity) /\ F32FromStr(a[c.opacity]).ok
                        THEN r.val[c.field] = WithOpacity(parsed, F32FromStr(a[c.opacity]).val)
                        ELSE /\ r.val[c.field] = parsed
                             /\ Len(a[c.name]) \in {4, 7} => r.val[c.field].a = U8Max

\* C13, reached: an ellipse with stroke #4008 and stroke-opacity 1, fill #FFFF00
\* and fill-opacity x has been decoded: the stroke's alpha is 255, not the 0x88
\* of its text, and the fill keeps the 255 of its text.
OpacityOverrideReached ==
    /\ Decoded
    /\ event[1].name = "ellipse"
    /\ Has(DecodedAttributes, "stroke") /\ Has(DecodedAttributes, "fill-opacity")
    /\ DecodedAttributes["stroke"] = <<"#", "4", "0", "0", "8">>
    /\ DecodedAttributes["fill-opacity"] = <<"x">>
    /\ sresult[1].ok
    /\ sresult[1].val.stroke = Color(68, 0, 0, U8Max)
    /\ sresult[1].val.fill = Color(U8Max, U8Max, 0, U8Max)

(***************************************************************************)
(* Properties of the attributes no decoder reads                           *)
(***************************************************************************)

\* the attributes the decoder of a variant reads: the required ones and the opacities
ReadNames(kind) == {Required(kind)[i] : i \in 1 .. Len(Required(kind))} \cup OpacityNames(kind)

\* a mapping cut down to these attributes
Restricted(attributes, names) == [n \in DOMAIN attributes \cap names |-> attributes[n]]

\* C17: the result of a shape decode depends only on the attributes its variant
\* requires and on its opacity attributes: every mapping decodes to what its
\* restriction to these attributes decodes to, so that two mappings that differ
\* only in other attributes (Ngon: points, well-formed or not; Line: d,
\* stroke-width, fill, fill-opacity; Ellipse: ry; any: the tool) decode to the
\* same result. The same holds for from_event with the tool kept.
DerivedNotAuthoritative ==
    /\ Decoded =>
          sresult[1] = FromAttributes(DecodedKind,
                                      Restricted(DecodedAttributes, ReadNames(DecodedKind)))
    /\ (pc = "dispatched" /\ event[1].kind = "Tag" /\ event[1].name \in ShapeTags) =>
          sresult[1]
             = FromEvent([event[1] EXCEPT
                             !.attributes =
                                 Restricted(event[1].attributes,
                                            ReadNames(KindOfTag(event[1].name))
                                                \cup {"svgnote:tool"})],
                         eid)

\* C17, reached: the polygon of tests::parse, whose points attribute is "15" and
\* no vertex list, has been decoded to the Ngon of its svgnote attributes.
DerivedNotAuthoritativeReached ==
    /\ Decoded
    /\ event[1].name = "polygon"
    /\ DecodedAttributes = PolygonAttributes
    /\ DecodedAttributes["points"] = <<"1", "5">>
    /\ sresult[1].ok
    /\ sresult[1].val.n = 4
    /\ sresult[1] = FromAttributes("Ngon", Without(PolygonAttributes, {"points"}))

(***************************************************************************)
(* Properties of the order of the errors                                   *)
(***************************************************************************)

\* the places in Required(kind) of the attributes that are absent or do not parse
FaultyRequired(kind, attributes) ==
    AbsentRequired(kind, attributes) \cup FailingRequired(kind, attributes)

\* the first place from i on in Required(kind) of an attribute that is absent or
\* does not parse, or 0 when there is none
RECURSIVE FirstFaulty(_, _, _)
FirstFaulty(kind, attributes, i) ==
    IF i > Len(Required(kind)) THEN 0
    ELSE IF ~Has(attributes, Required(kind)[i]) THEN i
    ELSE IF ~ValueParses(attributes, Required(kind)[i]) THEN i
    ELSE FirstFaulty(kind, attributes, i + 1)

\* the error of the attribute at place i of Required(kind), absent or not parsing
ErrorOf(kind, attributes, i) ==
    LET name == Required(kind)[i]
    IN  IF ~Has(attributes, name) THEN MissingAttribute(name)
        ELSE IF name \in PointListNames
        THEN InvalidPoint(TokensOf(kind, attributes)[Least(BadTokens(kind, attributes))])
        ELSE InvalidAttribute(name, attributes[name])

\* C18: when several attributes of a tag are absent or malformed, the shape
\* decode reports the error of the first of them in the order of Required (Line:
\* stroke, svgnote:points, svgnote:width; Ngon: svgnote:position, stroke-width,
\* svgnote:radius, svgnote:n, svgnote:angle, fill, stroke; Ellipse: cx, cy,
\* stroke-width, rx, fill, stroke; Polyline: stroke, fill, points, stroke-width)
\* and never that of a later one; from_event reports a missing or wrong tool of a
\* path or polygon before any of these.
ErrorPrecedence ==
    /\ Decoded =>
          LET first == FirstFaulty(DecodedKind, DecodedAttributes, 1)
          IN  IF first = 0 THEN sresult[1].ok
              ELSE sresult[1] = ErrorOf(DecodedKind, DecodedAttributes, first)
    /\ (pc = "dispatched" /\ event[1].kind = "Tag" /\ event[1].name \in ShapeTags) =>
          LET kind == KindOfTag(event[1].name)
              a    == event[1].attributes
              first == FirstFaulty(kind, a, 1)
              tool == IF kind = "Line" THEN TxtPen ELSE TxtNgon
          IN  IF kind \in {"Line", "Ngon"} /\ ~Has(a, "svgnote:tool")
              THEN sresult[1] = MissingAttribute("svgnote:tool")
              ELSE IF kind \in {"Line", "Ngon"} /\ a["svgnote:tool"] # tool
              THEN sresult[1] = InvalidAttribute("svgnote:tool", a["svgnote:tool"])
              ELSE IF first = 0 THEN sresult[1].ok
              ELSE sresult[1] = ErrorOf(kind, a, first)

\* C18, reached: a polygon whose svgnote:n is 256 and whose stroke is absent has
\* been decoded: the error is InvalidAttribute(svgnote:n, 256), that of the
\* earlier field.
ErrorPrecedenceReached ==
    /\ Decoded
    /\ event[1].name = "polygon"
    /\ FaultyRequired("Ngon", DecodedAttributes) = {4, 7}
    /\ ~Has(DecodedAttributes, "stroke")
    /\ sresult = Some(InvalidAttribute("svgnote:n", <<"2", "5", "6">>))

(***************************************************************************)
(* Properties of with_opacity and opacity                                  *)
(***************************************************************************)

\* 255 * m for a significand m, as <<hi, lo>> with 255 * m = 4096 * hi + lo
Times255(m) ==
    <<U8Max * (m \div 4096) + (U8Max * (m % 4096)) \div 4096, (U8Max * (m % 4096)) % 4096>>

\* whether k is an integer nearest to 255 * f, for 2^-8 <= f <= 1 or f = 0 (on a
\* tie both neighbours are)
NearestTo255(f, k) ==
    IF f.m = 0 THEN k = 0
    ELSE LET x    == Times255(f.m)
             unit == 2 ^ (f.e - 12)
             q    == x[1] \div unit
             rem  == (x[1] % unit) * 4096 + x[2]
             half == 2 ^ (f.e - 1)
         IN  \/ k = q /\ rem <= half
             \/ k = q + 1 /\ rem >= half

\* whether f is the f32 nearest to a / 255: its significand has 24 bits and
\* 255 * f is within half a unit of the last place of a
NearestToOver255(f, a) ==
    IF a = 0 THEN f = F32Zero
    ELSE LET x  == Times255(f.m)
             dh == x[1] - a * 2 ^ (f.e - 12)
             d  == dh * 4096 + x[2]
         IN  /\ ~f.neg /\ f.m >= MantMin /\ f.m < MantMax
             /\ dh \in {-1, 0}
             /\ d >= -127 /\ d <= 127

\* whether an f32 of the model lies in 0.0 ..= 1.0
InUnit(f) == f.m = 0 \/ (~f.neg /\ (f.e >= MantBits \/ f.m <= 2 ^ f.e))

\* C14: with_opacity(c, f), for 0 <= f <= 1, returns the r, g and b of c with
\* the alpha 255 * f rounded to the nearest integer; opacity(c) is a / 255.
WithOpacityRounds ==
    /\ (pc = "tinted" /\ InUnit(fraction[1])) =>
          /\ cresult[1].val.r = color[1].r
          /\ cresult[1].val.g = color[1].g
          /\ cresult[1].val.b = color[1].b
          /\ NearestTo255(fraction[1], cresult[1].val.a)
    /\ pc = "measured" => NearestToOver255(fraction[1], color[1].a)

\* C14, the failing run: with_opacity(Color(255, 0, 0, 255), 0.999) has returned
\* the alpha 254, 254.745 cut off, where the nearest integer is 255.
WithOpacityTruncates ==
    /\ pc = "tinted"
    /\ color = Some(Color(255, 0, 0, 255))
    /\ fraction = Some(F32OfDigits(FALSE, IntDigits(999), 3))
    /\ cresult = Some(Ok(Color(255, 0, 0, 254)))
    /\ ~NearestTo255(fraction[1], 254)
    /\ NearestTo255(fraction[1], 255)

=============================================================================
